---- MODULE Spec2Model ----
(***************************************************************************)
(* Event-sourced data-entry workflow of the authdemo backend:              *)
(*   app/services/event_writer.py  (EventWriter: append, list, fold)       *)
(*   app/services/workflows.py     (WorkflowHandler, STATE_TRANSITIONS)    *)
(*   app/api/routes/operator.py, supervisor.py (HTTP handlers)             *)
(*   app/security/authorization.py (PolicyEngine)                          *)
(*                                                                         *)
(* Every request is a coroutine; it gives up control at each await on the  *)
(* database session, so a request is a sequence of steps (one per database *)
(* round trip) and steps of different requests interleave.                 *)
(***************************************************************************)
EXTENDS Integers, Sequences, FiniteSets, Bags, TLC

VARIABLES
    events,      \* the events table, in commit order
    appendLog,   \* history: per stored event, what its writer had validated
    reqs,        \* bag of requests in flight (coroutine locals + position)
    last,        \* the response the latest step returned to its caller, if any
    preload,     \* number of events the store held when observation began
    access,      \* a call of PolicyEngine.evaluate: its arguments and its result
    parse,       \* an input handed to a parser, validator or check, and what came of it
    audit_logs,  \* the audit_logs table
    limiter      \* the rate limiter: its clock, its configuration, a bucket, a result

vars == <<events, appendLog, reqs, last, preload, access, parse, audit_logs, limiter>>

-----------------------------------------------------------------------------
(* Bounds of the model *)

\* events appended during one behaviour (on top of those the store starts with)
MaxEvents == 2

\* length of the strings handed to Scope.from_string and to EventWriteRequest
MaxLen == 5

-----------------------------------------------------------------------------
(* JSON values.  A value is a set of <<path, scalar>> leaves: a scalar s   *)
(* is {<<<<>>, s>>}, a dict is the union of its members' leaves with the   *)
(* key prepended to the path.  A payload (dict[str, Any]) is a function    *)
(* from its top-level keys to values.                                      *)

Str(s) == {<<<<>>, s>>}
None == Str("None")
EmptyDict == {}
Member(k, v) == IF v = {} THEN {<<<<k>>, "{}">>}
                ELSE {<<<<k>> \o leaf[1], leaf[2]>> : leaf \in v}
\* the JSON value of a whole dict
AsValue(d) == UNION {Member(k, d[k]) : k \in DOMAIN d}
\* dict.get(k, default)
Get(d, k, default) == IF k \in DOMAIN d THEN d[k] ELSE default
NoPayload == [k \in {} |-> {}]

\* the corrected_data a supervisor sends
CorrectedData == Member("field1", Str("v2"))

\* the "data" of the request bodies clients send: when creating an entry, and
\* when updating one (an update that empties the data)
CreateData == {Member("field1", Str("v1"))}
UpdateData == {EmptyDict}

-----------------------------------------------------------------------------
(* workflows.py: lifecycle states and the transition table *)

DataEntryState == {"draft", "submitted", "confirmed", "rejected", "corrected", "cancelled"}

Roles == {"operator", "supervisor", "auditor", "admin"}

Transition(from, to, et, role) ==
    [from_state |-> from, to_state |-> to, event_type |-> et, required_role |-> role]

TransitionList ==
    { Transition("draft",     "submitted", "data.submitted", "operator"),
      Transition("submitted", "confirmed", "data.confirmed", "supervisor"),
      Transition("submitted", "rejected",  "data.rejected",  "supervisor"),
      Transition("submitted", "cancelled", "data.cancelled", "operator"),
      Transition("confirmed", "corrected", "data.corrected", "supervisor"),
      Transition("rejected",  "corrected", "data.corrected", "supervisor"),
      Transition("rejected",  "cancelled", "data.cancelled", "operator"),
      Transition("corrected", "submitted", "data.submitted", "supervisor"),
      Transition("corrected", "confirmed", "data.confirmed", "supervisor") }

TransitionKeys == {<<t.from_state, t.event_type>> : t \in TransitionList}

STATE_TRANSITIONS ==
    [key \in TransitionKeys |->
        CHOOSE t \in TransitionList : t.from_state = key[1] /\ t.event_type = key[2]]

-----------------------------------------------------------------------------
(* event_writer.py: reading the store *)

\* default `limit` of get_events_for_entity
DefaultLimit == 100

_EVENT_CATEGORIES ==
    [et \in {"data.created", "data.submitted", "data.confirmed", "data.rejected",
             "data.cancelled", "data.corrected", "data.auto_validated", "data.expired",
             "user.created", "user.role_changed", "user.deactivated"} |->
        IF et = "data.corrected" THEN "correction"
        ELSE IF et \in {"data.auto_validated", "data.expired"} THEN "system"
        ELSE "user"]

\* _EVENT_CATEGORIES.get(event_type, CATEGORY_USER)
CategoryOf(et) == IF et \in DOMAIN _EVENT_CATEGORIES THEN _EVENT_CATEGORIES[et] ELSE "user"

\* rows of `store` with the given entity_id and entity_type (positions in the table)
RowsOf(store, id, etype) ==
    {i \in 1..Len(store) : store[i].entity_id = id /\ store[i].entity_type = etype}

\* ORDER BY timestamp ASC: every listing of the rows S in which timestamps never
\* decrease; rows with equal timestamps come in an order the database chooses.
\* A row stands after the rows with earlier timestamps; the rows that share a
\* timestamp are arranged over the places that follow.
Orderings(store, S) ==
    LET Earlier(i) == Cardinality({j \in S : store[j].timestamp < store[i].timestamp})
        tied   == {i \in S : \E j \in S \ {i} : store[j].timestamp = store[i].timestamp}
        place  == {<<i, Earlier(i) + 1>> : i \in S \ tied}
        first  == {<<i, Earlier(i) + 1>> : i \in tied}
        Peers(i) == Cardinality({j \in tied : store[j].timestamp = store[i].timestamp})
        places == {p[2] + d : p \in first, d \in 0..(Cardinality(tied) - 1)}
        arrangements ==
            {f \in [tied -> places] :
                /\ \A p \in first : f[p[1]] \in p[2]..(p[2] + Peers(p[1]) - 1)
                /\ \A i, j \in tied : i # j => f[i] # f[j]}
    IN {[k \in 1..Cardinality(S) |->
            IF \E i \in tied : f[i] = k
            THEN CHOOSE i \in tied : f[i] = k
            ELSE (CHOOSE p \in place : p[2] = k)[1]] : f \in arrangements}

Min(a, b) == IF a <= b THEN a ELSE b

\* the results get_events_for_entity may return (positions, first to last)
Listings(store, id, etype, limit) ==
    {SubSeq(o, 1, Min(limit, Len(o))) : o \in Orderings(store, RowsOf(store, id, etype))}

get_events_for_entity(store, id, etype) == Listings(store, id, etype, DefaultLimit)

\* dict.update
Update(a, b) == [k \in DOMAIN a \cup DOMAIN b |-> IF k \in DOMAIN b THEN b[k] ELSE a[k]]

\* the loop of get_entity_current_state over places lo..hi of one listing: each
\* payload is laid over the ones before it.  (dict.update is associative, so the
\* left-to-right merge is computed by halves.)
RECURSIVE MergePayloads(_, _, _, _)
MergePayloads(store, listing, lo, hi) ==
    IF lo > hi THEN NoPayload
    ELSE IF lo = hi THEN store[listing[lo]].payload
    ELSE LET mid == (lo + hi) \div 2
         IN Update(MergePayloads(store, listing, lo, mid),
                   MergePayloads(store, listing, mid + 1, hi))

\* the dict get_entity_current_state builds from one listing; the keys entity_id,
\* entity_type, event_count and last_event_at are kept apart from the payload keys
\* that state.update lays over them
FoldListing(store, id, etype, listing) ==
    [entity_id     |-> id,
     entity_type   |-> etype,
     event_count   |-> Len(listing),
     last_event_at |-> IF listing = <<>> THEN -1 ELSE store[listing[Len(listing)]].timestamp,
     payload       |-> MergePayloads(store, listing, 1, Len(listing))]

\* the dicts get_entity_current_state may return
get_entity_current_state(store, id, etype) ==
    {FoldListing(store, id, etype, l) : l \in get_events_for_entity(store, id, etype)}

\* how a call of get_entity_current_state ends.  The function has no raise
\* statement of its own: it ends at "return state", whatever the listing held
FoldOutcomes(store, id, etype) ==
    {[raised |-> "None", state |-> fold] :
        fold \in get_entity_current_state(store, id, etype)}

-----------------------------------------------------------------------------
(* workflows.py: what the handlers read out of the folded dict *)

\* (mutant of EventCountIsZero: no fold counts as that of a missing entry)
EventCountIsZero_Never(fold) == FALSE

\* current_state_dict.get("event_count", 0) == 0
EventCountIsZero(fold) ==
    IF "event_count" \in DOMAIN fold.payload
    THEN fold.payload["event_count"] = Str("0")
    ELSE fold.event_count = 0

\* _get_current_state: the state, or the error it raises
_get_current_state(fold) ==
    IF EventCountIsZero(fold) THEN "NOT_FOUND"
    ELSE LET v == Get(fold.payload, "state", Str("draft"))
         IN IF \E s \in DataEntryState : v = Str(s)
            THEN CHOOSE s \in DataEntryState : v = Str(s)
            ELSE "VALUE_ERROR"

\* _get_current_payload, for an entry that was found: the "data" value
_get_current_payload(fold) == Get(fold.payload, "data", EmptyDict)

-----------------------------------------------------------------------------
(* Strings that are parsed: sequences of characters.  An optional value is a
   sequence of at most one element: Nothing for None, Some(v) for v. *)

Alphabet == {"a", "b", ":", "."}
Strings == UNION {[1..n -> Alphabet] : n \in 0..MaxLen}

Nothing == <<>>
Some(v) == <<v>>

\* positions of the separator in s
Separators(s, sep) == {i \in 1..Len(s) : s[i] = sep}

\* str.split(sep): the segments between the separators; a string without
\* separator, the empty one too, is one segment
RECURSIVE Split(_, _)
Split(s, sep) ==
    IF Separators(s, sep) = {} THEN <<s>>
    ELSE LET i == CHOOSE j \in Separators(s, sep) : \A k \in Separators(s, sep) : j <= k
         IN <<SubSeq(s, 1, i - 1)>> \o Split(SubSeq(s, i + 1, Len(s)), sep)

\* what a parser or validator did with its input
Returns(value) == [raised |-> "None", value |-> value]
Fails(exception) == [raised |-> exception, value |-> Nothing]
NotParsed == Fails("-")
Parse(fn, input, result) == [fn |-> fn, input |-> input, result |-> result]
NoParse == Parse("-", <<>>, NotParsed)

\* Scope.from_string
from_string(scope_id) ==
    LET parts == Split(scope_id, ":")
    IN IF Len(parts) < 2 THEN Fails("ValueError")
       ELSE Returns([id         |-> scope_id,
                     resource   |-> parts[1],
                     action     |-> parts[2],
                     filter     |-> IF Len(parts) > 2 THEN Some(parts[3]) ELSE Nothing,
                     constraint |-> Nothing])

\* (mutant of validate_event_type: two segments or more are accepted)
validate_event_type_AtLeastTwo(v) ==
    IF v = <<>> THEN Fails("ValidationError")
    ELSE IF Len(Split(v, ".")) < 2 THEN Fails("ValidationError")
    ELSE Returns(v)

\* EventWriteRequest.validate_event_type; pydantic turns the ValueError of a
\* field validator into the ValidationError of the constructor.  The comparison
\* of the prefix with the entity type only logs a warning
validate_event_type(v) ==
    IF v = <<>> THEN Fails("ValidationError")
    ELSE IF Len(Split(v, ".")) # 2 THEN Fails("ValidationError")
    ELSE Returns(v)

-----------------------------------------------------------------------------
(* security/authorization.py: the policy engine.  "None" stands for None. *)

Scope(id, resource, action, filter, constraint) ==
    [id |-> id, resource |-> resource, action |-> action,
     filter |-> filter, constraint |-> constraint]

Permission(resource, action, owner_id, resource_status) ==
    [resource |-> resource, action |-> action,
     owner_id |-> owner_id, resource_status |-> resource_status]

\* what a call of evaluate gives its caller: an AccessDecision it returns
\* (raised = "None"), or the exception it raises
AccessDecision(allowed, reason, matched_scope) ==
    [raised |-> "None", allowed |-> allowed, reason |-> reason,
     matched_scope |-> matched_scope]
Raises(exception) ==
    [raised |-> exception, allowed |-> "-", reason |-> "-", matched_scope |-> "-"]

\* (mutant of matches: the action is not compared)
matches_ResourceOnly(scope, resource, action) == scope.resource = resource

\* Scope.matches
matches(scope, resource, action) == scope.resource = resource /\ scope.action = action

_load_role_scopes ==
    [role \in Roles |->
       CASE role = "operator" ->
              << Scope("data:create", "data", "create", "None", "None"),
                 Scope("data:read:own", "data", "read", "own", "None"),
                 Scope("data:update:own", "data", "update", "own", "unconfirmed") >>
         [] role = "supervisor" ->
              << Scope("data:read:all", "data", "read", "all", "None"),
                 Scope("data:confirm", "data", "confirm", "None", "None"),
                 Scope("data:correct", "data", "correct", "None", "None"),
                 Scope("data:reject", "data", "reject", "None", "None"),
                 Scope("reports:read", "reports", "read", "None", "None") >>
         [] role = "auditor" ->
              << Scope("data:read:all", "data", "read", "all", "None"),
                 Scope("audit:read", "audit", "read", "None", "None"),
                 Scope("reports:read", "reports", "read", "None", "None"),
                 Scope("events:read", "events", "read", "None", "None"),
                 Scope("users:read", "users", "read", "None", "None") >>
         [] role = "admin" ->
              << Scope("users:manage", "users", "manage", "None", "None"),
                 Scope("roles:manage", "roles", "manage", "None", "None"),
                 Scope("system:configure", "system", "configure", "None", "None"),
                 Scope("health:read", "health", "read", "None", "None"),
                 Scope("metrics:read", "metrics", "read", "None", "None"),
                 Scope("data:read:all", "data", "read", "all", "None"),
                 Scope("audit:read", "audit", "read", "None", "None"),
                 Scope("events:read", "events", "read", "None", "None") >>]

\* (mutant of _evaluate_filters_and_constraints: the filter is not looked at)
_evaluate_filters_and_constraints_NoFilter(scope, permission) ==
    ~(scope.constraint = "unconfirmed" /\ permission.resource_status # "unconfirmed")

\* (mutant of _evaluate_filters_and_constraints: the constraint is not looked at)
_evaluate_filters_and_constraints_NoConstraint(scope, permission) ==
    ~(scope.filter = "own" /\ permission.owner_id = "None")

_evaluate_filters_and_constraints(scope, permission) ==
    IF scope.filter = "own" /\ permission.owner_id = "None" THEN FALSE
    ELSE IF scope.constraint = "unconfirmed" /\ permission.resource_status # "unconfirmed"
         THEN FALSE
         ELSE TRUE

\* (mutant of matching_scopes: the scopes of the token are not looked at)
RECURSIVE matching_scopes_Ungranted(_, _, _, _)
matching_scopes_Ungranted(role_scopes, scopes, permission, n) ==
    IF n = 0 THEN <<>>
    ELSE LET s    == role_scopes[n]
             rest == matching_scopes_Ungranted(role_scopes, scopes, permission, n - 1)
         IN IF matches(s, permission.resource, permission.action)
            THEN Append(rest, s)
            ELSE rest

\* (mutant of matching_scopes: the scopes kept are those the token lacks)
RECURSIVE matching_scopes_NotGranted(_, _, _, _)
matching_scopes_NotGranted(role_scopes, scopes, permission, n) ==
    IF n = 0 THEN <<>>
    ELSE LET s    == role_scopes[n]
             rest == matching_scopes_NotGranted(role_scopes, scopes, permission, n - 1)
         IN IF matches(s, permission.resource, permission.action) /\ s.id \notin scopes
            THEN Append(rest, s)
            ELSE rest

\* the list comprehension of evaluate: the first n scopes of the role, in order,
\* that match the permission's resource and action and are among the token's
RECURSIVE matching_scopes(_, _, _, _)
matching_scopes(role_scopes, scopes, permission, n) ==
    IF n = 0 THEN <<>>
    ELSE LET s    == role_scopes[n]
             rest == matching_scopes(role_scopes, scopes, permission, n - 1)
         IN IF matches(s, permission.resource, permission.action) /\ s.id \in scopes
            THEN Append(rest, s)
            ELSE rest

\* evaluate, from the role's scopes on: no scopes, no matching scope, the first
\* matching scope whose filter and constraint are satisfied, or none
decide(role_scopes, scopes, permission) ==
    LET matching == matching_scopes(role_scopes, scopes, permission, Len(role_scopes))
        granting == {n \in 1..Len(matching) :
                       _evaluate_filters_and_constraints(matching[n], permission)}
    IN IF role_scopes = <<>>
       THEN AccessDecision(FALSE, "Role has no defined scopes", "None")
       ELSE IF matching = <<>>
       THEN AccessDecision(FALSE, "No scope grants", "None")
       ELSE IF granting # {}
       THEN AccessDecision(TRUE, "Access granted via scope",
                matching[CHOOSE n \in granting : \A m \in granting : n <= m].id)
       ELSE AccessDecision(FALSE, "Scope filters or constraints not satisfied", "None")

\* (mutant of evaluate: the admin role is evaluated like any other)
evaluate_NoBypass(role, scopes, permission) ==
    IF role \notin Roles THEN Raises("ValueError")
    ELSE decide(_load_role_scopes[role], scopes, permission)

\* (mutant of evaluate: a role that is not in Role has no scopes)
evaluate_UnknownRoleDenied(role, scopes, permission) ==
    IF role = "admin"
    THEN AccessDecision(TRUE, "Admin role has all permissions", "admin:all")
    ELSE decide(IF role \in Roles THEN _load_role_scopes[role] ELSE <<>>, scopes, permission)

\* PolicyEngine.evaluate: the decision, or the ValueError that Role(role) raises.
\* `scopes` is the set of scope ids of the token
evaluate(role, scopes, permission) ==
    IF role = "admin"
    THEN AccessDecision(TRUE, "Admin role has all permissions", "admin:all")
    ELSE IF role \notin Roles THEN Raises("ValueError")
    ELSE decide(_load_role_scopes[role], scopes, permission)

\* get_scopes_for_role: the scope ids a token issued for `role` carries
get_scopes_for_role(role) ==
    {_load_role_scopes[role][n].id : n \in 1..Len(_load_role_scopes[role])}

\* a call of evaluate that has its arguments (decision: what it gave, once it has run)
Access(role, scopes, permission, decision) ==
    [role |-> role, scopes |-> scopes, permission |-> permission, decision |-> decision]
NotRun == Raises("-")
NoAccess == Access("-", {}, Permission("-", "-", "-", "-"), NotRun)

-----------------------------------------------------------------------------
(* Identities.  One user per role: actor_id, actor_role and actor_username  *)
(* of a request are all given by the role of its token.                     *)

EntityIds == {"e1", "e2"}

\* the worker tasks that serve requests, one request each at a time
Workers == {"w1", "w2"}

\* the roles of the tokens that requests arrive with
Actors == {"operator", "supervisor", "admin"}

\* an Event row (models/event.py); event_id is the row's position in the table
Event(id, et, payload, role, ts) ==
    [entity_id        |-> id,
     entity_type      |-> "data_entry",
     event_type       |-> et,
     event_category   |-> CategoryOf(et),
     payload          |-> payload,
     previous_payload |-> None,
     actor_role       |-> role,
     timestamp        |-> ts]

NoEvent == Event("-", "-", NoPayload, "-", -1)

\* a request in flight: its inputs, what it has read so far, the event it is writing
\* (cur: the state it folded; seen: the number of events in that fold; folded: the
\* whole payload of the fold it took previous_data from)
Request(op, pc, id, role, cur, seen, folded, pending) ==
    [op |-> op, pc |-> pc, entity_id |-> id, actor_role |-> role,
     cur |-> cur, seen |-> seen, folded |-> folded, pending |-> pending]

InFlight == BagToSet(reqs)

\* datetime.now(UTC).  Only the order of timestamps matters, so they are kept as
\* ranks 1, 2, ...: the clock never runs backwards, and a read may agree with the
\* read of a request that is still in flight
Stamps(store, bag) ==
    {store[i].timestamp : i \in 1..Len(store)}
        \cup ({r.pending.timestamp : r \in BagToSet(bag)} \ {-1})
LatestStamp ==
    LET stamps == Stamps(events, reqs) \cup {0}
    IN CHOOSE t \in stamps : \A u \in stamps : u <= t
Now == {LatestStamp + 1}
         \cup {r.pending.timestamp : r \in {q \in InFlight : q.pending.timestamp = LatestStamp}}

\* Only the order of timestamps matters.  When a request ends without inserting,
\* the time it had read is held by nobody; the times read by the requests still in
\* flight are then renamed to the earliest ranks that keep their order among
\* themselves and against the rows of the table, which keep theirs.
Settle(t, rows, held) ==
    IF t = -1 \/ t \in rows THEN t
    ELSE LET below == {u \in rows : u < t} \cup {0}
             base  == CHOOSE u \in below : \A v \in below : v <= u
         IN base + Cardinality({u \in held \ rows : base < u /\ u <= t})
SettleRequest(r, rows, held) == [r EXCEPT !.pending.timestamp = Settle(@, rows, held)]
SettleBag(bag, rows, held) ==
    LET S == BagToSet(bag)
    IN [x \in {SettleRequest(r, rows, held) : r \in S} |->
            bag[CHOOSE r \in S : SettleRequest(r, rows, held) = x]]

\* uuid4() for a new entry: an id no event and no request in flight carries
UsedIds == {events[i].entity_id : i \in 1..Len(events)} \cup {r.entity_id : r \in InFlight}
FreshIds == EntityIds \ UsedIds
uuid4 == CHOOSE id \in FreshIds : \A other \in FreshIds : id = "e1" \/ other # "e1"

\* The entry_id of a request is a UUID its client sends.  The id of an entry that
\* is being created is not known to any client until create has returned it
Addressable(id) == \A r \in InFlight : r.op = "create" => r.entity_id # id

\* room for one more writer within the bounds
CanStart ==
    /\ BagCardinality(reqs) < Cardinality(Workers)
    /\ (Len(events) - preload) + BagCardinality(reqs) < MaxEvents

\* how a request ended: the operation, and "success" (EventWriteResult.success) or
\* the failure
Outcome(op, outcome) == [op |-> op, outcome |-> outcome]

\* a step that returns nothing to a caller
NoOutcome == Outcome("-", "-")

\* the request r leaves with the given outcome and nothing inserted
Finish(r, outcome) ==
    LET rest == reqs (-) SetToBag({r})
    IN /\ reqs' = SettleBag(rest, Stamps(events, EmptyBag), Stamps(events, rest))
       /\ last' = Outcome(r.op, outcome)
       /\ UNCHANGED <<events, appendLog, preload, access, parse, audit_logs, limiter>>

\* (mutant of Refuse: the handler has written its event before it raises)
Refuse_AfterWrite(op, id, role, outcome) ==
    /\ last' = Outcome(op, outcome)
    /\ events' = Append(events, Event(id, "data.confirmed", [state |-> Str("confirmed")],
                                      role, LatestStamp + 1))
    /\ appendLog' = Append(appendLog,
                           [op |-> op, cur |-> "-", seen |-> -1, folded |-> EmptyDict])
    /\ UNCHANGED <<reqs, preload, access, parse, audit_logs, limiter>>

\* a request that ends before it awaits anything
Refuse(op, id, role, outcome) ==
    /\ last' = Outcome(op, outcome)
    /\ UNCHANGED <<events, appendLog, reqs, preload, access, parse, audit_logs, limiter>>

\* the request r goes on to its next await
Continue(r, next) ==
    /\ reqs' = (reqs (-) SetToBag({r})) (+) SetToBag({next})
    /\ last' = NoOutcome
    /\ UNCHANGED <<events, appendLog, preload, access, parse, audit_logs, limiter>>

\* a new request enters, suspended at its first await
Enter(r) ==
    /\ reqs' = reqs (+) SetToBag({r})
    /\ last' = NoOutcome
    /\ UNCHANGED <<events, appendLog, preload, access, parse, audit_logs, limiter>>

-----------------------------------------------------------------------------
(* services/audit.py: the audit logger.  AuditLogger.log is called by no route,
   no dependency and no handler of the application: no step of the model
   changes audit_logs. *)

\* AuditLogEntry: who, what, and the result
AuditLogEntry(actor_role, action, success) ==
    [actor_role |-> actor_role, action |-> action, success |-> success]

\* AuditLogger.log: one row added to audit_logs
log(table, entry) == Append(table, entry)

-----------------------------------------------------------------------------
(* workflows.py: the checks of confirm_entry, reject_entry and correct_entry *)

\* (mutant of ValidateTransition: the role of the actor is not looked at)
ValidateTransition_AnyRole(cur, et, role) ==
    IF <<cur, et>> \notin DOMAIN STATE_TRANSITIONS THEN "invalid_transition" ELSE "ok"

\* (mutant of ValidateTransition: the role is checked first)
ValidateTransition_RoleFirst(cur, et, role) ==
    IF role \notin {"supervisor", "admin"} THEN "unauthorized_role"
    ELSE IF <<cur, et>> \notin DOMAIN STATE_TRANSITIONS THEN "invalid_transition"
    ELSE "ok"

\* the two checks on (current_state, event_type) and the actor's role, in the
\* order the handlers make them; "ok" when neither raises
ValidateTransition(cur, et, role) ==
    IF <<cur, et>> \notin DOMAIN STATE_TRANSITIONS THEN "invalid_transition"
    ELSE IF STATE_TRANSITIONS[<<cur, et>>].required_role # role /\ role # "admin"
         THEN "unauthorized_role"
         ELSE "ok"

\* what a handler does with the state _get_current_state gave it
CheckState(cur, et, role) ==
    IF cur = "NOT_FOUND" THEN "not_found"
    ELSE IF cur = "VALUE_ERROR" THEN "value_error"
    ELSE ValidateTransition(cur, et, role)

\* require_role(role) of api/dependencies/auth.py, on the supervisor routes
RequireRole(required, role) == role = required \/ role = "admin"

(* the payloads the handlers build *)

\* (mutant of CreatedPayload: the entry is created as submitted)
CreatedPayload_Submitted(data) ==
    [data |-> data, entry_type |-> Str("default"), state |-> Str("submitted")]

CreatedPayload(data) ==
    [data |-> data, entry_type |-> Str("default"), state |-> Str("draft")]
SubmittedPayload == [state |-> Str("submitted"), submitted_note |-> None]
UpdatedPayload(data, status) == [data |-> data, state |-> Str(status)]
ConfirmedPayload(role) ==
    [state |-> Str("confirmed"), confirmed_by |-> Str(role), confirmation_note |-> None]
RejectedPayload(role, rejection_reason) ==
    [state |-> Str("rejected"), rejected_by |-> Str(role),
     rejection_reason |-> Str(rejection_reason)]
CorrectedPayload(role, corrected, previous) ==
    [state |-> Str("corrected"), corrected_data |-> corrected,
     fields_corrected |-> Member("0", Str("field1")),
     correction_note |-> Str("note"), corrected_by |-> Str(role),
     previous_data |-> previous]

-----------------------------------------------------------------------------
(* The requests *)

\* POST /operator/data -> WorkflowHandler.create_data_entry -> EventWriter.write,
\* up to its await on commit
create_data_entry(role, data) ==
    /\ CanStart
    /\ FreshIds # {}
    /\ \E now \in Now :
         Enter(Request("create", "commit", uuid4, role, "-", -1, EmptyDict,
                       Event(uuid4, "data.created", CreatedPayload(data), role, now)))

\* POST /operator/data/{entry_id}/submit, up to the await on commit
submit_data_entry(role, id) ==
    /\ CanStart
    /\ Addressable(id)
    /\ \E now \in Now :
         Enter(Request("submit", "commit", id, role, "-", -1, EmptyDict,
                       Event(id, "data.submitted", SubmittedPayload, role, now)))

\* The data_entries read model.  No code of the repository writes it; the
\* projector is taken from the specification: one row per created entry, rebuilt
\* by folding the entry's events, and allowed to lag behind the store.  The rows
\* a read of entry `id` may find: the fold of some earlier length of the table.
DataEntryProjection(store, id) ==
    LET created == {i \in RowsOf(store, id, "data_entry") :
                        store[i].event_type = "data.created"}
    IN IF created = {} THEN {}
       ELSE {[status |-> _get_current_state(fold), created_by |-> store[c].actor_role] :
               <<fold, c>> \in UNION {
                   get_entity_current_state(SubSeq(store, 1, n), id, "data_entry")
                     \X {i \in created : i <= n} : n \in 1..Len(store)}}

\* PUT /operator/data/{entry_id}: the read of the caller's own projection row and
\* the two checks on it
update_data_entry(role, id, data) ==
    /\ CanStart
    /\ Addressable(id)
    /\ LET rows == {row \in DataEntryProjection(events, id) : row.created_by = role}
       IN IF rows = {} THEN Refuse("update", id, role, "http_404")
          ELSE \E entry \in rows :
               IF entry.status \notin {"draft", "rejected"}
               THEN Refuse("update", id, role, "http_403")
               ELSE Enter(Request("update", "stamp", id, role, "-", -1, EmptyDict,
                          Event(id, "data.updated", UpdatedPayload(data, entry.status),
                                role, -1)))

\* confirm_entry: the fold it awaits and the checks on what it read.  viaRoute:
\* called by POST /supervisor/data/{entry_id}/confirm, behind require_role
confirm_entry(role, id, viaRoute) ==
    /\ CanStart
    /\ Addressable(id)
    /\ IF viaRoute /\ ~RequireRole("supervisor", role)
       THEN Refuse("confirm", id, role, "http_403")
       ELSE \E fold \in get_entity_current_state(events, id, "data_entry") :
              LET cur   == _get_current_state(fold)
                  check == CheckState(cur, "data.confirmed", role)
              IN IF check # "ok" THEN Refuse("confirm", id, role, check)
                 ELSE Enter(Request("confirm", "stamp", id, role, cur, fold.event_count,
                            EmptyDict,
                            Event(id, "data.confirmed", ConfirmedPayload(role), role, -1)))

\* the rejection_reason of a RejectRequest / DataEntryRejectRequest: any str, the
\* empty one included (the field is required, its length is not constrained).
\* No code reads the reason; it is carried into the payload as it is
GivenReasons == {"reason"}
RejectionReasons == GivenReasons \cup {""}

\* reject_entry, likewise
reject_entry(role, id, rejection_reason, viaRoute) ==
    /\ CanStart
    /\ Addressable(id)
    /\ IF viaRoute /\ ~RequireRole("supervisor", role)
       THEN Refuse("reject", id, role, "http_403")
       ELSE \E fold \in get_entity_current_state(events, id, "data_entry") :
              LET cur   == _get_current_state(fold)
                  check == CheckState(cur, "data.rejected", role)
              IN IF check # "ok" THEN Refuse("reject", id, role, check)
                 ELSE Enter(Request("reject", "stamp", id, role, cur, fold.event_count,
                            EmptyDict,
                            Event(id, "data.rejected", RejectedPayload(role, rejection_reason),
                                  role, -1)))

\* correct_entry: its first fold (_get_current_state)
correct_entry(role, id, viaRoute) ==
    /\ CanStart
    /\ Addressable(id)
    /\ IF viaRoute /\ ~RequireRole("supervisor", role)
       THEN Refuse("correct", id, role, "http_403")
       ELSE \E fold \in get_entity_current_state(events, id, "data_entry") :
              LET cur == _get_current_state(fold)
              IN IF cur \in {"NOT_FOUND", "VALUE_ERROR"}
                 THEN Refuse("correct", id, role, CheckState(cur, "data.corrected", role))
                 ELSE Enter(Request("correct", "fold_payload", id, role, cur,
                                    fold.event_count, EmptyDict, NoEvent))

\* correct_entry: its second fold (_get_current_payload), then the checks on the
\* state the first fold gave, then EventWriter.write up to the query of
\* _validate_correction
correct_entry_payload(r) ==
    /\ r.pc = "fold_payload"
    /\ \E fold \in get_entity_current_state(events, r.entity_id, "data_entry") :
         LET check == IF EventCountIsZero(fold) THEN "not_found"
                      ELSE ValidateTransition(r.cur, "data.corrected", r.actor_role)
             prev  == _get_current_payload(fold)
         IN IF check # "ok" THEN Finish(r, check)
            ELSE Continue(r, [r EXCEPT !.pc = "validate_correction",
                                       !.folded = AsValue(fold.payload),
                                       !.pending = Event(r.entity_id, "data.corrected",
                                           CorrectedPayload(r.actor_role, CorrectedData, prev),
                                           r.actor_role, -1)])

\* _validate_correction: what becomes of its query for "the most recent event".
\* scalar_one_or_none() raises MultipleResultsFound on more than one row; on one
\* row, assigning request.previous_payload raises ValueError, EventWriteRequest
\* having no such field; on none, EventWriteError is raised
_validate_correction(store, id) ==
    LET rows == Cardinality(RowsOf(store, id, "data_entry"))
    IN IF rows = 0 THEN "EventWriteError"
       ELSE IF rows = 1 THEN "ValueError"
       ELSE "MultipleResultsFound"

\* EventWriter.write of a correction: _validate_event, and on an exception the
\* rollback and the failed result (the outcome names the exception); otherwise _create_event, up to the await on commit
validate_correction(r) ==
    /\ r.pc = "validate_correction"
    /\ IF _validate_correction(events, r.entity_id) # "ok"
       THEN Finish(r, _validate_correction(events, r.entity_id))
       ELSE \E now \in Now :
              Continue(r, [r EXCEPT !.pc = "commit", !.pending.timestamp = now])

\* the coroutine resumes after its read: _create_event takes the time, session.add,
\* and the await on commit
create_event(r) ==
    /\ r.pc = "stamp"
    /\ \E now \in Now :
         Continue(r, [r EXCEPT !.pc = "commit", !.pending.timestamp = now])

\* (mutant of InsertRow: the row replaces the entity's latest row, if it has one)
InsertRow_Upsert(store, row) ==
    LET own == {i \in 1..Len(store) : store[i].entity_id = row.entity_id}
    IN IF own = {} THEN Append(store, row)
       ELSE [store EXCEPT ![CHOOSE i \in own : \A j \in own : j <= i] = row]

\* INSERT of one row at the end of the table
InsertRow(store, row) == Append(store, row)

\* (mutant of Rollback: the row added to the session stays in the table)
Rollback_KeepsRow(store, row) == Append(store, row)

\* session.rollback() after a commit that failed: the row that was added to
\* the session is discarded
Rollback(store, row) == store

\* how the two awaits that end EventWriter.write may go: commit and refresh
\* succeed; the database refuses the commit; or the row is committed and the
\* refresh that follows raises
CommitResults == {"committed", "commit_failed", "refresh_failed"}

\* session.commit() and session.refresh(event): the row is inserted and write
\* returns success=True; or an exception is caught, write rolls back and
\* returns success=False
commit(r) ==
    /\ r.pc = "commit"
    /\ \E result \in CommitResults :
         IF result = "commit_failed"
         THEN LET rest == reqs (-) SetToBag({r})
              IN /\ events' = Rollback(events, r.pending)
                 /\ reqs' = SettleBag(rest, Stamps(events, EmptyBag), Stamps(events, rest))
                 /\ last' = Outcome(r.op, "write_failed")
                 /\ UNCHANGED <<appendLog, preload, access, parse, audit_logs, limiter>>
         ELSE /\ events' = InsertRow(events, r.pending)
              /\ appendLog' = Append(appendLog, [op |-> r.op, cur |-> r.cur, seen |-> r.seen, folded |-> r.folded])
              /\ reqs' = reqs (-) SetToBag({r})
              /\ last' = Outcome(r.op, IF result = "committed" THEN "success"
                                       ELSE "refresh_failed")
              /\ UNCHANGED <<preload, access, parse, audit_logs, limiter>>

-----------------------------------------------------------------------------
(* middleware/rate_limit.py: the token bucket rate limiter.  One key is        *)
(* modelled: the buckets of different keys share nothing.                      *)

\* tokens is a float: it is counted here in parts of 1/Unit of a token
Unit == 2

\* the longest time observed, in seconds, and the largest burst configured
MaxClock == 4
MaxBurst == 2

\* RateLimitConfig(requests_per_minute, burst)
RateLimitConfig ==
    [requests_per_minute : {30, 60}, burst : 1..MaxBurst]

\* _TokenBucket(capacity, refill_rate) created at time `now`: tokens = 0 and
\* __post_init__ sets last_refill.  refill_rate is in parts of a token per second
_TokenBucket(capacity, refill_rate, now) ==
    [capacity |-> capacity, refill_rate |-> refill_rate, tokens |-> 0, last_refill |-> now]

\* (mutant of _refill: the tokens are not capped at the capacity)
_refill_Uncapped(b, now) ==
    [b EXCEPT !.tokens = b.tokens + (now - b.last_refill) * b.refill_rate,
              !.last_refill = now]

\* _TokenBucket._refill at time `now`
_refill(b, now) ==
    [b EXCEPT !.tokens = Min(b.capacity * Unit,
                             b.tokens + (now - b.last_refill) * b.refill_rate),
              !.last_refill = now]

\* (mutant of consume: any part of a token is enough to allow)
consume_PartOfAToken(b, now) ==
    LET r == _refill(b, now)
    IN IF r.tokens > 0
       THEN [bucket |-> [r EXCEPT !.tokens = @ - Unit], allowed |-> TRUE, retry_after |-> 0]
       ELSE [bucket |-> r, allowed |-> FALSE,
             retry_after |-> (Unit - r.tokens) \div r.refill_rate]

\* _TokenBucket.consume at time `now`: the bucket it leaves and the pair it
\* returns.  int() of a quotient of positive numbers is its floor
consume(b, now) ==
    LET r == _refill(b, now)
    IN IF r.tokens >= Unit
       THEN [bucket |-> [r EXCEPT !.tokens = @ - Unit], allowed |-> TRUE, retry_after |-> 0]
       ELSE [bucket |-> r, allowed |-> FALSE,
             retry_after |-> (Unit - r.tokens) \div r.refill_rate]

\* the limiter: the clock (datetime.now), the configuration, the bucket of the
\* key if it has one, and what the latest check_rate_limit returned
Limiter(clock, config, bucket, result) ==
    [clock |-> clock, config |-> config, bucket |-> bucket, result |-> result]
NoLimiter == Limiter(0, [requests_per_minute |-> 60, burst |-> 1], Nothing, Nothing)

\* RateLimiter._get_bucket: the bucket of the key, created if it has none
_get_bucket ==
    IF limiter.bucket # Nothing THEN limiter.bucket[1]
    ELSE _TokenBucket(limiter.config.burst,
                      (limiter.config.requests_per_minute * Unit) \div 60,
                      limiter.clock)

\* a call of _get_bucket alone
get_bucket_call ==
    /\ limiter' = [limiter EXCEPT !.bucket = Some(_get_bucket)]
    /\ UNCHANGED <<events, appendLog, reqs, last, preload, access, parse, audit_logs>>

\* RateLimiter.check_rate_limit(key)
check_rate_limit ==
    /\ LET out == consume(_get_bucket, limiter.clock)
       IN limiter' = [limiter EXCEPT
                        !.bucket = Some(out.bucket),
                        !.result = Some([allowed |-> out.allowed,
                                         retry_after |-> out.retry_after])]
    /\ UNCHANGED <<events, appendLog, reqs, last, preload, access, parse, audit_logs>>

\* a call of _refill on the bucket of the key
refill_call ==
    /\ limiter.bucket # Nothing
    /\ limiter' = [limiter EXCEPT !.bucket = Some(_refill(limiter.bucket[1], limiter.clock))]
    /\ UNCHANGED <<events, appendLog, reqs, last, preload, access, parse, audit_logs>>

\* RateLimiter.reset(key)
reset ==
    /\ limiter.bucket # Nothing
    /\ limiter' = [limiter EXCEPT !.bucket = Nothing]
    /\ UNCHANGED <<events, appendLog, reqs, last, preload, access, parse, audit_logs>>

\* a second passes
tick ==
    /\ limiter.clock < MaxClock
    /\ limiter' = [limiter EXCEPT !.clock = @ + 1]
    /\ UNCHANGED <<events, appendLog, reqs, last, preload, access, parse, audit_logs>>

InitLimiter ==
    /\ events = <<>>
    /\ appendLog = <<>>
    /\ preload = 0
    /\ reqs = EmptyBag
    /\ last = NoOutcome
    /\ access = NoAccess
    /\ parse = NoParse
    /\ audit_logs = <<>>
    /\ \E config \in RateLimitConfig : limiter = Limiter(0, config, Nothing, Nothing)

NextLimiter ==
    \/ get_bucket_call
    \/ check_rate_limit
    \/ refill_call
    \/ reset
    \/ tick

SpecLimiter == InitLimiter /\ [][NextLimiter]_vars

-----------------------------------------------------------------------------
(* Specification *)

\* What the store holds when observation begins: nothing, or one entry that an
\* operator has created and submitted
SubmittedEntry ==
    << Event("e1", "data.created", CreatedPayload(Member("field1", Str("v1"))), "operator", 1),
       Event("e1", "data.submitted", SubmittedPayload, "operator", 2) >>
SubmittedEntryLog ==
    << [op |-> "create", cur |-> "-", seen |-> -1, folded |-> EmptyDict],
       [op |-> "submit", cur |-> "-", seen |-> -1, folded |-> EmptyDict] >>

InitialStores == {<<<<>>, <<>>>>, <<SubmittedEntry, SubmittedEntryLog>>}

Init ==
    /\ \E start \in InitialStores :
         /\ events = start[1]
         /\ appendLog = start[2]
         /\ preload = Len(start[1])
    /\ reqs = EmptyBag
    /\ last = NoOutcome
    /\ access = NoAccess
    /\ parse = NoParse
    /\ audit_logs = <<>>
    /\ limiter = NoLimiter

Next ==
    \/ \E role \in Actors, data \in CreateData : create_data_entry(role, data)
    \/ \E role \in Actors, id \in EntityIds : submit_data_entry(role, id)
    \/ \E role \in Actors, id \in EntityIds, data \in UpdateData : update_data_entry(role, id, data)
    \/ \E role \in Actors, id \in EntityIds, viaRoute \in BOOLEAN : confirm_entry(role, id, viaRoute)
    \/ \E role \in Actors, id \in EntityIds, rejection_reason \in GivenReasons,
          viaRoute \in BOOLEAN : reject_entry(role, id, rejection_reason, viaRoute)
    \/ \E role \in Actors, id \in EntityIds, viaRoute \in BOOLEAN : correct_entry(role, id, viaRoute)
    \/ \E r \in InFlight : correct_entry_payload(r)
    \/ \E r \in InFlight : validate_correction(r)
    \/ \E r \in InFlight : create_event(r)
    \/ \E r \in InFlight : commit(r)

Spec == Init /\ [][Next]_vars

\* A long-lived entry: e1 was created and submitted, and then submitted again
\* and again (the submit route writes its event whatever the entry's state),
\* until it has DefaultLimit events
RECURSIVE Resubmitted(_)
Resubmitted(n) ==
    IF n = 2 THEN SubmittedEntry
    ELSE Append(Resubmitted(n - 1),
                Event("e1", "data.submitted", SubmittedPayload, "operator", n))
Backlog == Resubmitted(DefaultLimit)
BacklogLog == [i \in 1..DefaultLimit |->
                 [op |-> IF i = 1 THEN "create" ELSE "submit",
                  cur |-> "-", seen |-> -1, folded |-> EmptyDict]]

InitBacklog ==
    /\ events = Backlog
    /\ appendLog = BacklogLog
    /\ preload = Len(Backlog)
    /\ reqs = EmptyBag
    /\ last = NoOutcome
    /\ access = NoAccess
    /\ parse = NoParse
    /\ audit_logs = <<>>
    /\ limiter = NoLimiter

\* the requests of supervisors and submitters on the entries
NextBacklog ==
    \/ \E role \in Actors, id \in EntityIds : submit_data_entry(role, id)
    \/ \E role \in Actors, id \in EntityIds, viaRoute \in BOOLEAN : confirm_entry(role, id, viaRoute)
    \/ \E role \in Actors, id \in EntityIds, rejection_reason \in GivenReasons,
          viaRoute \in BOOLEAN : reject_entry(role, id, rejection_reason, viaRoute)
    \/ \E r \in InFlight : create_event(r)
    \/ \E r \in InFlight : commit(r)

SpecBacklog == InitBacklog /\ [][NextBacklog]_vars

\* An entry that was cancelled.  No code of the repository appends data.cancelled
\* (STATE_TRANSITIONS lists it, no handler or route writes it); the cancel
\* operation is taken from the specification: an operator's data.cancelled on a
\* submitted entry, whose payload carries the table's to-state
CancelledPayload == [state |-> Str("cancelled")]
CancelledEntry ==
    Append(SubmittedEntry, Event("e1", "data.cancelled", CancelledPayload, "operator", 3))
CancelledEntryLog ==
    Append(SubmittedEntryLog,
           [op |-> "cancel", cur |-> "-", seen |-> -1, folded |-> EmptyDict])

InitCancelled ==
    /\ \E start \in InitialStores \cup {<<CancelledEntry, CancelledEntryLog>>} :
         /\ events = start[1]
         /\ appendLog = start[2]
         /\ preload = Len(start[1])
    /\ reqs = EmptyBag
    /\ last = NoOutcome
    /\ access = NoAccess
    /\ parse = NoParse
    /\ audit_logs = <<>>
    /\ limiter = NoLimiter

SpecCancelled == InitCancelled /\ [][Next]_vars

\* Rejections, with every reason a supervisor may send
NextReject ==
    \/ \E role \in Actors, id \in EntityIds, rejection_reason \in RejectionReasons,
          viaRoute \in BOOLEAN : reject_entry(role, id, rejection_reason, viaRoute)
    \/ \E r \in InFlight : create_event(r)
    \/ \E r \in InFlight : commit(r)

SpecReject == Init /\ [][NextReject]_vars

\* The writer called with payloads of the caller's choosing.  EventWriteRequest
\* declares payload: dict[str, Any] and has no validator on it; _validate_event
\* does not read it
WrittenPayloads ==
    { [state |-> Str("submitted")],
      [event_count |-> Str("0")],
      [entity_id |-> Str("e2"), entity_type |-> Str("user")] }

\* EventWriter.write(EventWriteRequest(entity_id, "data_entry", "data.updated",
\* payload, ...)), up to its first await
write_payload(role, id, payload) ==
    /\ CanStart
    /\ Addressable(id)
    /\ Enter(Request("write", "stamp", id, role, "-", -1, EmptyDict,
                     Event(id, "data.updated", payload, role, -1)))

NextPayload ==
    \/ \E id \in EntityIds, payload \in WrittenPayloads : write_payload("admin", id, payload)
    \/ \E id \in EntityIds : confirm_entry("supervisor", id, FALSE)
    \/ \E r \in InFlight : create_event(r)
    \/ \E r \in InFlight : commit(r)

SpecPayload == Init /\ [][NextPayload]_vars

\* POST /operator/data and POST /operator/data/{entry_id}/submit: what the route
\* answers when the writer has returned its EventWriteResult.  The route reads
\* result.event_id and result.timestamp, and never result.success
operator_response(op, outcome) ==
    IF outcome \notin {"success", "write_failed", "refresh_failed"}
    THEN [status_code |-> 500, status |-> "-"]
    ELSE IF op = "create" THEN [status_code |-> 201, status |-> "draft"]
    ELSE [status_code |-> 200, status |-> "submitted"]

\* GET /supervisor/data/{entry_id}: behind require_role("supervisor"), the read of
\* the entry's projection row; the response carries the row's status
get_data_entry(role, id) ==
    LET rows == DataEntryProjection(events, id)
        Respond(outcome, result) ==
            /\ last' = Outcome("read", outcome)
            /\ parse' = Parse("get_data_entry", id, result)
    IN /\ IF ~RequireRole("supervisor", role)
          THEN Respond("http_403", Fails("http_403"))
          ELSE IF rows = {}
          THEN Respond("http_404", Fails("http_404"))
          ELSE \E entry \in rows : Respond("http_200", Returns(entry.status))
       /\ UNCHANGED <<events, appendLog, reqs, preload, access, audit_logs, limiter>>

\* Confirmations by a supervisor through the route, and reads of the entries
\* through the supervisor read route
NextRead ==
    \/ \E id \in EntityIds : confirm_entry("supervisor", id, TRUE)
    \/ \E r \in InFlight : create_event(r)
    \/ \E r \in InFlight : commit(r)
    \/ \E role \in Actors, id \in EntityIds : get_data_entry(role, id)

\* every request that is sent is served: the supervisor's reads of each entry, and
\* the steps of the writers
SpecRead ==
    /\ Init
    /\ [][NextRead]_vars
    /\ \A id \in EntityIds : WF_vars(get_data_entry("supervisor", id))
    /\ WF_vars(\E r \in InFlight : create_event(r) \/ commit(r))

\* The checks of the handlers on what they folded.  confirm_entry, reject_entry
\* and correct_entry make the same checks, in the same order, on the state that
\* _get_current_state gave them (or the error it raised), their event type and
\* the role of the actor
HandlerEventTypes == {"data.confirmed", "data.rejected", "data.corrected"}
FoldedStates == DataEntryState \cup {"NOT_FOUND", "VALUE_ERROR"}

InitChecks ==
    /\ events = <<>>
    /\ appendLog = <<>>
    /\ preload = 0
    /\ reqs = EmptyBag
    /\ last = NoOutcome
    /\ access = NoAccess
    /\ audit_logs = <<>>
    /\ limiter = NoLimiter
    /\ \E cur \in FoldedStates, event_type \in HandlerEventTypes, role \in Roles :
         parse = Parse("-", <<cur, event_type, role>>, NotParsed)

\* the handler's checks: the error it raises, or the to-state of the event it
\* goes on to write
check_state ==
    /\ parse.fn = "-"
    /\ LET cur        == parse.input[1]
           event_type == parse.input[2]
           role       == parse.input[3]
           check      == CheckState(cur, event_type, role)
       IN parse' = Parse("CheckState", parse.input,
                         IF check = "ok"
                         THEN Returns(STATE_TRANSITIONS[<<cur, event_type>>].to_state)
                         ELSE [raised |-> check, value |-> "-"])
    /\ UNCHANGED <<events, appendLog, reqs, last, preload, access, audit_logs, limiter>>

NextChecks == check_state

SpecChecks == InitChecks /\ [][NextChecks]_vars

\* The calls of the policy engine.  The roles a token may name (one of them is
\* not a Role), the scope ids it may carry, and the permissions asked for
PolicyRoles == Roles \cup {"guest"}
GrantedScopes ==
    SUBSET {"data:create", "data:read:own", "data:update:own", "data:read:all", "audit:read"}
Permissions ==
    {Permission(resource, action, owner_id, resource_status) :
        resource \in {"data", "audit"},
        action \in {"create", "read", "update"},
        owner_id \in {"None", "u1", "u2"},
        resource_status \in {"None", "unconfirmed", "confirmed"}}

InitPolicy ==
    /\ events = <<>>
    /\ appendLog = <<>>
    /\ preload = 0
    /\ reqs = EmptyBag
    /\ last = NoOutcome
    /\ \E role \in PolicyRoles, scopes \in GrantedScopes, permission \in Permissions :
         access = Access(role, scopes, permission, NotRun)
    /\ parse = NoParse
    /\ audit_logs = <<>>
    /\ limiter = NoLimiter

\* require_permission: the call of policy_engine.evaluate with the caller's role
\* and scopes
require_permission ==
    /\ access.decision.raised = NotRun.raised
    /\ access' = [access EXCEPT
                    !.decision = evaluate(access.role, access.scopes, access.permission)]
    /\ UNCHANGED <<events, appendLog, reqs, last, preload, parse, audit_logs, limiter>>

NextPolicy == require_permission

SpecPolicy == InitPolicy /\ [][NextPolicy]_vars

\* The parsers.  A string is handed to Scope.from_string, or to the constructor
\* of EventWriteRequest as the event_type of a request that is then written
InitParse ==
    /\ events = <<>>
    /\ appendLog = <<>>
    /\ preload = 0
    /\ reqs = EmptyBag
    /\ last = NoOutcome
    /\ access = NoAccess
    /\ audit_logs = <<>>
    /\ limiter = NoLimiter
    /\ \E input \in Strings : parse = Parse("-", input, NotParsed)

\* Scope.from_string(scope_id)
from_string_call ==
    /\ parse.fn = "-"
    /\ parse' = Parse("Scope.from_string", parse.input, from_string(parse.input))
    /\ UNCHANGED <<events, appendLog, reqs, last, preload, access, audit_logs, limiter>>

\* EventWriteRequest(event_type=...): the field validators run in the constructor
EventWriteRequest ==
    /\ parse.fn = "-"
    /\ parse' = Parse("EventWriteRequest", parse.input, validate_event_type(parse.input))
    /\ UNCHANGED <<events, appendLog, reqs, last, preload, access, audit_logs, limiter>>

\* EventWriter.write(request) of a request that was constructed: the row it
\* inserts carries the request's event_type; the commit may fail
write ==
    /\ parse.fn = "EventWriteRequest"
    /\ parse.result.raised = "None"
    /\ parse' = [parse EXCEPT !.fn = "EventWriter.write"]
    /\ LET row == [Event("e1", "-", [state |-> Str("draft")], "operator", 1)
                     EXCEPT !.event_type = parse.result.value]
       IN \E result \in CommitResults :
            IF result = "commit_failed"
            THEN /\ events' = Rollback(events, row)
                 /\ last' = Outcome("write", "write_failed")
            ELSE /\ events' = InsertRow(events, row)
                 /\ last' = Outcome("write", IF result = "committed" THEN "success"
                                             ELSE "refresh_failed")
    /\ UNCHANGED <<appendLog, reqs, preload, access, audit_logs, limiter>>

NextParse ==
    \/ from_string_call
    \/ EventWriteRequest
    \/ write

SpecParse == InitParse /\ [][NextParse]_vars

-----------------------------------------------------------------------------
(* Properties *)

\* rows appended while observed (the rows before them were there at the start)
Appended == (preload + 1)..Len(events)

\* the lifecycle state folded from the first n rows of a listing
StateAfter(store, id, listing, n) ==
    _get_current_state(FoldListing(store, id, "data_entry", SubSeq(listing, 1, n)))

\* C1: validating a transition against the folded state and appending its event
\* are atomic per entity: no two stored events of one entity were validated
\* against the same folded history (the same number of that entity's events), so
\* of two conflicting transitions that both read the same state at most one is
\* appended.
C1_FoldAndAppendAtomic ==
    \A i, j \in 1..Len(events) :
        ( /\ i < j
          /\ events[i].entity_id = events[j].entity_id
          /\ appendLog[i].seen # -1 )
        => appendLog[i].seen # appendLog[j].seen

\* C2: in timestamp order, every event of an entity after its first has a type
\* that the transition table allows from the state folded from the events before
\* it; this includes the events the submit and update routes write.
C2_EveryEventFollowsTable ==
    \A id \in EntityIds :
        \A listing \in Orderings(events, RowsOf(events, id, "data_entry")) :
            \A n \in 2..Len(listing) :
                <<StateAfter(events, id, listing, n - 1), events[listing[n]].event_type>>
                    \in DOMAIN STATE_TRANSITIONS

\* the event a request has handed to EventWriter.write, or is about to
Attempts ==
    {r \in InFlight : r.op \in {"confirm", "reject", "correct"} /\ r.pending # NoEvent}

\* what C3 asks of an event of confirm_entry, reject_entry or correct_entry and
\* the state its handler folded
TableAllows(cur, ev) ==
    /\ <<cur, ev.event_type>> \in DOMAIN STATE_TRANSITIONS
    /\ LET t == STATE_TRANSITIONS[<<cur, ev.event_type>>]
       IN /\ ev.actor_role \in {t.required_role, "admin"}
          /\ ev.payload["state"] = Str(t.to_state)

\* C3: confirm_entry, reject_entry and correct_entry append, or attempt to
\* append, an event only if (state folded for the entry, event type) is a key of
\* the transition table and the actor's role is the required role or admin; the
\* payload state of the event is the to-state of that table entry.
C3_HandlersFollowTable ==
    /\ \A r \in Attempts : TableAllows(r.cur, r.pending)
    /\ \A i \in Appended :
         appendLog[i].op \in {"confirm", "reject", "correct"}
            => TableAllows(appendLog[i].cur, events[i])

\* C3 witness: a supervisor's confirmation of a submitted entry is stored, and
\* an admin's correction of it has passed the checks and is at the writer
C3_Witness ==
    /\ \E i \in Appended :
         /\ appendLog[i].op = "confirm"
         /\ appendLog[i].cur = "submitted"
         /\ events[i].actor_role = "supervisor"
    /\ \E r \in Attempts : r.op = "correct" /\ r.actor_role = "admin"

\* C4: every transition event in the store that follows an edge of the table was
\* appended by an actor whose role is that edge's required role, or by an admin
\* (data.submitted from draft: an operator or an admin).
C4_AppendedByRequiredRole ==
    \A id \in EntityIds :
        \A listing \in Orderings(events, RowsOf(events, id, "data_entry")) :
            \A n \in 2..Len(listing) :
                LET ev  == events[listing[n]]
                    key == <<StateAfter(events, id, listing, n - 1), ev.event_type>>
                IN key \in DOMAIN STATE_TRANSITIONS
                     => ev.actor_role \in {STATE_TRANSITIONS[key].required_role, "admin"}

\* C5: a stored event is never updated or deleted: every step leaves each row of
\* the table where it was, with every field as it was; the table only grows, at
\* its end.
C5_AppendOnly ==
    [][ /\ Len(events') >= Len(events)
        /\ SubSeq(events', 1, Len(events)) = events ]_vars

\* C5 witness: with rows in the table, one request has appended its event and
\* another has then failed and rolled back
C5_Witness ==
    /\ preload > 0
    /\ Len(events) > preload
    /\ last.outcome = "write_failed"

\* the action each writing operation performs on the resource "data"
ActionOf(op) == op

\* the contexts a caller could give the engine for a request on a data entry
PermissionContexts(op) ==
    {Permission("data", ActionOf(op), owner, status) :
        owner \in {"None"} \cup Actors,
        status \in {"None", "unconfirmed"} \cup DataEntryState}

\* C6: no event is appended unless the policy engine allowed the request's role,
\* scopes and permission: every event appended by a request is one that the
\* engine allows, in some context, to the role of its writer holding all the
\* scopes of that role.
C6_PolicyAllowsEveryAppend ==
    \A i \in Appended :
        \E permission \in PermissionContexts(appendLog[i].op) :
            evaluate(events[i].actor_role, get_scopes_for_role(events[i].actor_role),
                     permission).allowed

\* C7: the data.corrected event that correct_entry builds for the store carries,
\* as previous_data, the entity's full folded payload as it was read just before
\* the correction.
C7_PreviousDataIsFoldedPayload ==
    /\ \A r \in Attempts :
         r.op = "correct" => r.pending.payload["previous_data"] = r.folded
    /\ \A i \in Appended :
         appendLog[i].op = "correct"
            => events[i].payload["previous_data"] = appendLog[i].folded

\* the ways confirm_entry, reject_entry and correct_entry refuse a request
\* before they reach the writer
Refusals == {"http_403", "not_found", "value_error", "invalid_transition",
             "unauthorized_role"}

\* C8: a correct_entry call that passes its checks (a supervisor or an admin, on
\* an entry folded as confirmed or rejected) and whose commit the database does
\* not refuse returns success=True, having appended one data.corrected event,
\* and the fold of the entry then gives the state corrected.
C8_CorrectionSucceeds ==
    (last.op = "correct" /\ last.outcome \notin Refusals \cup {"write_failed", "refresh_failed"})
        => /\ last.outcome = "success"
           /\ Len(events) > preload
           /\ LET ev == events[Len(events)]
              IN /\ ev.event_type = "data.corrected"
                 /\ \A fold \in get_entity_current_state(events, ev.entity_id, "data_entry") :
                        _get_current_state(fold) = "corrected"

\* C9: after a successful append for an entity, every fold of that entity's
\* events gives the state that the appended event carries and counts all the
\* events stored for the entity, however many events it already had.
C9_FoldSeesTheAppend ==
    (last.outcome = "success")
        => LET ev   == events[Len(events)]
               rows == RowsOf(events, ev.entity_id, "data_entry")
           IN \A fold \in get_entity_current_state(events, ev.entity_id, "data_entry") :
                /\ fold.payload["state"] = ev.payload["state"]
                /\ fold.event_count = Cardinality(rows)

\* for every key of the payloads of a listing, the value in the last payload of
\* the listing that has the key
LastWriterWins(store, listing) ==
    LET Has(n, k) == k \in DOMAIN store[listing[n]].payload
        places    == 1..Len(listing)
    IN [k \in UNION {DOMAIN store[listing[n]].payload : n \in places} |->
          store[listing[CHOOSE n \in places :
                          Has(n, k) /\ \A m \in places : m > n => ~Has(m, k)]].payload[k]]

\* C10: the fold of an entity is the last-writer-wins merge of the payloads of
\* the entity's events in ascending timestamp order: every key has the value of
\* the latest event whose payload has the key.
C10_FoldIsLastWriterWins ==
    \A id \in EntityIds :
        \A fold \in get_entity_current_state(events, id, "data_entry") :
            \E all \in Orderings(events, RowsOf(events, id, "data_entry")) :
                fold.payload = LastWriterWins(events, all)

\* a call of evaluate has run and returned a decision
Decided == access.decision.raised = "None"

\* a call of evaluate has run, and returned or raised
Evaluated == access.decision.raised # NotRun.raised

\* C15: admin bypass: whatever the permission and the granted scopes (none, too),
\* evaluate with role admin returns allowed=true with matched_scope admin:all.
C15_AdminBypass ==
    (Evaluated /\ access.role = "admin")
        => /\ access.decision.raised = "None"
           /\ access.decision.allowed = TRUE
           /\ access.decision.matched_scope = "admin:all"

C15_Witness ==
    /\ Decided /\ access.role = "admin" /\ access.scopes = {}
    /\ access.decision.matched_scope = "admin:all"

\* C16: default deny: for every role but admin and every permission, evaluate
\* with no granted scopes returns allowed=false.
C16_DefaultDeny ==
    (Evaluated /\ access.role \in Roles \ {"admin"} /\ access.scopes = {})
        => /\ access.decision.raised = "None"
           /\ access.decision.allowed = FALSE

C16_Witness ==
    /\ Decided /\ access.role = "operator" /\ access.scopes = {}
    /\ access.permission.resource = "data" /\ access.permission.action = "create"
    /\ access.decision.allowed = FALSE

\* C17: for a role other than admin, evaluate allows only with matched_scope the
\* id of a scope that is configured for the role, is among the granted scopes,
\* matches the resource and the action asked for, and has its filter and its
\* constraint satisfied by the request.
C17_AllowedOnlyByGrantedRoleScope ==
    (Decided /\ access.role # "admin" /\ access.decision.allowed = TRUE)
        => /\ access.role \in Roles
           /\ \E n \in 1..Len(_load_role_scopes[access.role]) :
                LET scope == _load_role_scopes[access.role][n]
                IN /\ scope.id = access.decision.matched_scope
                   /\ scope.id \in access.scopes
                   /\ scope.resource = access.permission.resource
                   /\ scope.action = access.permission.action
                   /\ scope.filter = "own" => access.permission.owner_id # "None"
                   /\ scope.constraint = "unconfirmed"
                        => access.permission.resource_status = "unconfirmed"

\* C17 witness: an operator is allowed by its own scope while the token also
\* carries a scope that is not configured for operators
C17_Witness ==
    /\ Decided /\ access.role = "operator"
    /\ "data:read:all" \in access.scopes
    /\ access.decision.allowed = TRUE
    /\ access.decision.matched_scope = "data:read:own"

\* C18: the own filter only asks for an owner: an operator granted data:read:own
\* is allowed to read data if and only if the request names an owner_id,
\* whichever it is.
C18_OwnFilterIsPresenceOnly ==
    ( /\ Evaluated
      /\ access.role = "operator"
      /\ "data:read:own" \in access.scopes
      /\ access.permission.resource = "data"
      /\ access.permission.action = "read" )
        => /\ access.decision.raised = "None"
           /\ access.decision.allowed = (access.permission.owner_id # "None")

C18_Witness ==
    /\ Decided /\ access.role = "operator"
    /\ "data:read:own" \in access.scopes
    /\ access.permission.resource = "data" /\ access.permission.action = "read"
    /\ access.permission.owner_id = "u2"
    /\ access.decision.allowed = TRUE

\* C19: the unconfirmed constraint: an operator granted data:update:own is
\* allowed to update data if and only if the request names an owner_id and its
\* resource_status is unconfirmed; any other status, or none, is denied.
C19_UnconfirmedConstraint ==
    ( /\ Evaluated
      /\ access.role = "operator"
      /\ "data:update:own" \in access.scopes
      /\ access.permission.resource = "data"
      /\ access.permission.action = "update" )
        => /\ access.decision.raised = "None"
           /\ access.decision.allowed =
                 ( /\ access.permission.owner_id # "None"
                   /\ access.permission.resource_status = "unconfirmed" )

C19_Witness ==
    /\ Decided /\ access.role = "operator"
    /\ "data:update:own" \in access.scopes
    /\ access.permission.resource = "data" /\ access.permission.action = "update"
    /\ access.permission.owner_id = "u1"
    /\ access.permission.resource_status = "None"
    /\ access.decision.allowed = FALSE

\* C20: evaluate with a role that is none of operator, supervisor, auditor and
\* admin fails with the error of an unknown role and returns no decision.
C20_UnknownRoleRaises ==
    (Evaluated /\ access.role \notin Roles)
        => access.decision.raised = "ValueError"

C20_Witness ==
    /\ access.role = "guest"
    /\ "data:create" \in access.scopes
    /\ access.decision.raised = "ValueError"

\* the entries of which the store holds no event
Unknown == {id \in EntityIds : RowsOf(events, id, "data_entry") = {}}

\* C11: the fold of an (entity_id, entity_type) that has no events signals that
\* the entity was not found; it does not return a state.
C11_FoldOfNoEventsSignalsNotFound ==
    \A id \in Unknown :
        \A outcome \in FoldOutcomes(events, id, "data_entry") :
            outcome.raised = "EntityNotFoundError"

\* C12: confirm_entry, reject_entry and correct_entry, called with the id of an
\* entry that has no events, fail with the not-found error ("Data entry not
\* found") and append nothing.
C12_UnknownEntryIsNotFound ==
    [][\A role \in Actors, id \in Unknown :
         ( \/ confirm_entry(role, id, FALSE)
           \/ \E rejection_reason \in GivenReasons :
                 reject_entry(role, id, rejection_reason, FALSE)
           \/ correct_entry(role, id, FALSE) )
            => /\ last'.op \in {"confirm", "reject", "correct"}
               /\ last'.outcome = "not_found"
               /\ events' = events
               /\ reqs' = reqs]_vars

\* C12 witness: a handler has just refused the id of an entry without events,
\* while the store holds events of another entry
C12_Witness ==
    /\ last.op \in {"confirm", "reject", "correct"}
    /\ last.outcome = "not_found"
    /\ Unknown # {}
    /\ events # <<>>

\* the entries whose folded state is cancelled
Cancelled ==
    {id \in EntityIds \ Unknown :
        \A fold \in get_entity_current_state(events, id, "data_entry") :
            _get_current_state(fold) = "cancelled"}

\* C13: cancelled is terminal: once the folded state of an entry is cancelled,
\* no operation appends a further event to that entry, so that its folded state
\* stays cancelled.
C13_CancelledIsTerminal ==
    [][\A id \in Cancelled :
         RowsOf(events', id, "data_entry") = RowsOf(events, id, "data_entry")]_vars

\* the three outcomes the transition table allows a workflow operation
TableOutcomes == {"success", "invalid_transition", "unauthorized_role"}

\* C14: whatever the folded state, the actor's role and the event type asked for,
\* a workflow operation on an existing entry ends in one of three ways, as the
\* transition table says: its event is appended, an invalid-transition error, or
\* an unauthorized-role error; it ends in no other, unhandled way.  (A refusal
\* by the route's role check, a missing entry and a failure of the database at
\* commit or refresh are not outcomes of the table.)
C14_OutcomeIsOneOfThree ==
    ( /\ last.op \in {"confirm", "reject", "correct"}
      /\ last.outcome \notin {"http_403", "not_found", "write_failed", "refresh_failed"} )
        => last.outcome \in TableOutcomes

\* C21: Scope.from_string rejects every string with fewer than two
\* colon-separated segments; every string it accepts gives a Scope whose
\* resource and action are non-empty, whose filter is the third segment if
\* there is one and None otherwise, whose constraint is None and whose id is
\* the input string.
C21_FromStringGivesResourceAndAction ==
    parse.fn = "Scope.from_string"
        => LET segments == Split(parse.input, ":")
               scope    == parse.result.value
           IN /\ Len(segments) < 2 => parse.result.raised = "ValueError"
              /\ parse.result.raised = "None"
                   => /\ scope.resource # <<>>
                      /\ scope.action # <<>>
                      /\ scope.filter = IF Len(segments) > 2 THEN Some(segments[3])
                                        ELSE Nothing
                      /\ scope.constraint = Nothing
                      /\ scope.id = parse.input

\* an event_type that is not empty and has exactly two dot-separated segments,
\* that is, exactly one dot
TwoSegments(event_type) ==
    event_type # <<>> /\ Cardinality(Separators(event_type, ".")) = 1

\* C28: an EventWriteRequest is constructed only from an event_type that is not
\* empty and has exactly two dot-separated segments; for any other event_type
\* the constructor fails with a validation error and nothing is written: no
\* stored event carries such an event_type.
C28_MalformedEventTypeIsRefused ==
    /\ parse.fn \in {"EventWriteRequest", "EventWriter.write"}
         => /\ TwoSegments(parse.input) => parse.result.raised = "None"
            /\ ~TwoSegments(parse.input)
                 => parse.result.raised = "ValidationError" /\ events = <<>>
    /\ parse.fn # "Scope.from_string"
         => \A i \in 1..Len(events) : TwoSegments(events[i].event_type)

\* C28 witness: the constructor has refused an event_type of three segments
C28_Witness ==
    /\ parse.fn = "EventWriteRequest"
    /\ Len(Split(parse.input, ".")) = 3
    /\ parse.result.raised = "ValidationError"
    /\ events = <<>>

\* C22: every attempt of a workflow operation (create, confirm, reject,
\* correct), whether it succeeded or failed, has left an entry in the audit log
\* that records the actor, the action and the outcome.
C22_EveryAttemptIsAudited ==
    last.op \in {"create", "confirm", "reject", "correct"}
        => \E i \in 1..Len(audit_logs), role \in Actors :
              audit_logs[i] = AuditLogEntry(role, last.op, last.outcome = "success")

C24_RepeatedConfirmIsRefused ==
    [][\A role \in Actors, id \in EntityIds :
         ( /\ last = Outcome("confirm", "success")
           /\ reqs = EmptyBag
           /\ events[Len(events)].entity_id = id
           /\ events[Len(events)].actor_role = role
           /\ confirm_entry(role, id, FALSE) )
            => /\ last'.outcome = "invalid_transition"
               /\ reqs' = reqs
               /\ events' = events]_vars

\* C25: for any one entity, the timestamps of its events never decrease in the
\* order in which the events were committed, also when the writes of different
\* requests to that entity overlapped.
C25_TimestampsFollowCommitOrder ==
    \A i, j \in 1..Len(events) :
        (i < j /\ events[i].entity_id = events[j].entity_id)
            => events[i].timestamp <= events[j].timestamp

\* C26: the fold is deterministic: for every stored sequence of events of an
\* entity, two events with the same timestamp included, two calls of
\* get_entity_current_state with no append between them return the same state
\* and the same payload.
C26_FoldIsDeterministic ==
    \A id \in EntityIds :
        \A first, second \in get_entity_current_state(events, id, "data_entry") :
            /\ _get_current_state(first) = _get_current_state(second)
            /\ first.payload = second.payload

\* C30: in every state of the store, each entry that has an event has exactly
\* one data.created event, and that event is the earliest of the entry: no
\* operation, the submit route included, appends to an id without data.created.
C30_EveryEntryStartsWithCreated ==
    \A id \in EntityIds \ Unknown :
        LET rows    == RowsOf(events, id, "data_entry")
            created == {i \in rows : events[i].event_type = "data.created"}
        IN /\ Cardinality(created) = 1
           /\ \A c \in created, i \in rows :
                 c <= i /\ events[c].timestamp <= events[i].timestamp

\* C27: create_data_entry appends exactly one event, a data.created whose
\* payload carries state draft, to a new entity id that had no events; right
\* after it the fold of that entity returns state draft and event_count 1.
C27_CreateAppendsOneDraftEvent ==
    last = Outcome("create", "success")
        => LET created == events[Len(events)]
           IN /\ created.event_type = "data.created"
              /\ created.payload["state"] = Str("draft")
              /\ RowsOf(events, created.entity_id, "data_entry") = {Len(events)}
              /\ \A fold \in get_entity_current_state(events, created.entity_id, "data_entry") :
                    /\ _get_current_state(fold) = "draft"
                    /\ fold.event_count = 1
                    /\ "event_count" \notin DOMAIN fold.payload

\* C27 witness: an entry has just been created next to the entry the store held
C27_Witness ==
    /\ last = Outcome("create", "success")
    /\ Len(events) = preload + 1
    /\ preload = Len(SubmittedEntry)
    /\ events[Len(events)].entity_id = "e2"

\* C29: reject_entry called with an empty rejection reason is refused and appends
\* nothing: every data.rejected event of the store carries a rejection_reason
\* that is not empty.
C29_RejectionReasonIsNotEmpty ==
    \A i \in 1..Len(events) :
        events[i].event_type = "data.rejected"
            => events[i].payload["rejection_reason"] # Str("")

\* the number of requests in flight for which EventWriter.write has been called
Writing(bag) ==
    BagCardinality([r \in {q \in BagToSet(bag) : q.pending # NoEvent} |-> bag[r]])

\* C31: when confirm_entry, reject_entry or correct_entry fails its validation
\* (entry not found, transition not in the table, role not sufficient), the
\* error is raised before a write is attempted: EventWriter.write has not been
\* called for the request and the store is unchanged.
C31_FailedValidationWritesNothing ==
    [][( /\ last'.op \in {"confirm", "reject", "correct"}
         /\ last'.outcome \in {"not_found", "invalid_transition", "unauthorized_role"} )
          => /\ events' = events
             /\ Writing(reqs') = Writing(reqs)]_vars

\* C31 witness: an operator's confirm_entry of the submitted entry has just been
\* refused for its role, and the store holds what it held
C31_Witness ==
    /\ last = Outcome("confirm", "unauthorized_role")
    /\ events = SubmittedEntry
    /\ reqs = EmptyBag

\* the roles the table accepts for an event type, from whatever state
RolesFor(event_type) ==
    {STATE_TRANSITIONS[key].required_role :
        key \in {k \in DOMAIN STATE_TRANSITIONS : k[2] = event_type}} \cup {"admin"}

\* C32: when an operation is asked for on an entry whose (state, event type) is
\* not in the transition table by an actor whose role would not do either (an
\* operator confirming a draft entry), it fails with the invalid-transition
\* error: the transition is checked before the role.
C32_TransitionIsCheckedBeforeRole ==
    ( /\ parse.fn = "CheckState"
      /\ parse.input[1] \in DataEntryState
      /\ <<parse.input[1], parse.input[2]>> \notin DOMAIN STATE_TRANSITIONS
      /\ parse.input[3] \notin RolesFor(parse.input[2]) )
        => parse.result.raised = "invalid_transition"

\* C32 witness: an operator confirming a draft entry was refused for the
\* transition
C32_Witness ==
    /\ parse.fn = "CheckState"
    /\ parse.input = <<"draft", "data.confirmed", "operator">>
    /\ parse.result.raised = "invalid_transition"

\* the events of entry `id` fold to `state`, whatever the order of the listing
FoldsTo(id, state) ==
    /\ id \notin Unknown
    /\ \A fold \in get_entity_current_state(events, id, "data_entry") :
          _get_current_state(fold) = state

\* C33: after confirm_entry has succeeded, reading the entry through the
\* supervisor read route eventually returns the status 'confirmed'.
C33_ConfirmedIsEventuallyRead ==
    \A id \in EntityIds :
        (FoldsTo(id, "confirmed") /\ last = Outcome("confirm", "success"))
            ~> (parse = Parse("get_data_entry", id, Returns("confirmed")))

\* C34: the operator create and submit routes report success (status 'draft' for
\* a created entry, 'submitted' for a submitted one) only when EventWriter.write
\* returned success=True, so that the event_id they return is that of a stored
\* event.
C34_SuccessIsReportedOnlyWhenWritten ==
    ( /\ last.op \in {"create", "submit"}
      /\ operator_response(last.op, last.outcome).status \in {"draft", "submitted"} )
        => last.outcome = "success"

\* C35: the event_count that get_entity_current_state returns is the number of
\* events it listed, whatever the payloads hold: no stored payload makes an
\* entity that has events be reported as not found.
C35_PayloadsDoNotHideAnEntity ==
    \A id \in EntityIds \ Unknown :
        \A fold \in get_entity_current_state(events, id, "data_entry") :
            /\ "event_count" \notin DOMAIN fold.payload
            /\ _get_current_state(fold) # "NOT_FOUND"

\* C36: evaluation is monotone in the granted scopes: for a fixed role and
\* permission, when evaluate allows with the scopes S it allows, with the same
\* matched scope, with every set of scopes that includes S.
C36_MonotoneInGrantedScopes ==
    (Decided /\ access.decision.allowed = TRUE)
        => \A more \in GrantedScopes :
             access.scopes \subseteq more
               => LET decision == evaluate(access.role, more, access.permission)
                  IN /\ decision.raised = "None"
                     /\ decision.allowed = TRUE
                     /\ decision.matched_scope = access.decision.matched_scope

\* C36 witness: an operator whose token carries data:read:own alone was allowed
\* to read an entry that has an owner
C36_Witness ==
    /\ Decided
    /\ access.role = "operator"
    /\ access.scopes = {"data:read:own"}
    /\ access.permission = Permission("data", "read", "u1", "None")
    /\ access.decision.allowed = TRUE
    /\ access.decision.matched_scope = "data:read:own"

\* C37: after any sequence of consume and refill calls on a token bucket, with a
\* clock that does not go back, 0 <= tokens <= capacity.
C37_TokensStayWithinCapacity ==
    limiter.bucket # Nothing
        => /\ 0 <= limiter.bucket[1].tokens
           /\ limiter.bucket[1].tokens <= limiter.bucket[1].capacity * Unit

\* C37 witness: a bucket of burst 1 that was refilled over more seconds than it
\* takes to fill it holds exactly its capacity
C37_Witness ==
    /\ limiter.bucket # Nothing
    /\ limiter.config = [requests_per_minute |-> 60, burst |-> 1]
    /\ limiter.bucket[1].tokens = Unit
    /\ limiter.bucket[1].last_refill >= 2

\* the tokens of bucket b once refilled for the time that has passed
Refilled(b, now) ==
    LET filled == b.tokens + (now - b.last_refill) * b.refill_rate
    IN IF filled > b.capacity * Unit THEN b.capacity * Unit ELSE filled

====
